---------------------------- MODULE Spec2Model ----------------------------
(***************************************************************************)
(* mqttui: a Bubble Tea terminal client for an MQTT broker.                *)
(*                                                                         *)
(* The model follows the three Go files of the program:                    *)
(*   ui.go    the UI struct (catalog, selection, cursors, message stream,  *)
(*            focus, error text), its key handler and its renderer, which  *)
(*            clamps the two scroll cursors while it lays the panes out;   *)
(*   main.go  App.Update, the single event handler of the event loop, and  *)
(*            the subscription diff it runs after every event;             *)
(*   mqtt.go  the gateway: the commands that run on their own goroutines   *)
(*            and the broker callbacks that post events to the loop.       *)
(*                                                                         *)
(* Bubble Tea's loop takes one event, calls Update, starts the commands    *)
(* Update returned and then calls View.  The model keeps the two calls as  *)
(* two steps (pc = "idle" -> "view" -> "idle"), so that what a handler     *)
(* leaves behind and what the renderer makes of it can both be stated.     *)
(*                                                                         *)
(* Topic names are modelled by the naturals 1..n, the order of the         *)
(* naturals standing for the lexicographic order of the names.             *)
(***************************************************************************)
EXTENDS Integers, Sequences, FiniteSets, Bags, TLC

(***************************************************************************)
(* Bounds of the model.                                                    *)
(***************************************************************************)
NumTopics == 1          \* topics the broker carries (Spec)
MaxMessages == 1        \* messages kept before the stream stops growing (Spec)
MaxInflight == 2        \* commands running at once (Spec)
MaxInbox == 2           \* events posted and not yet taken by the loop (Spec)
NavTopics == 9          \* catalog length in the topics-pane specification
NavMessages == 1        \* stream length in the topics-pane specification
NavKeys == 1            \* leading topics the user toggles in the topics-pane specification
LogMessages == 9        \* stream length in the messages-pane specification
LogTopics == 1          \* catalog length in the messages-pane specification
DiffTopics == 3         \* topics the inputs of the subscription diff range over
CatTopics == 3          \* topics the broker publishes on (SpecCatalog)
CatMessages == 2        \* messages in the stream (SpecCatalog)
SubTopics == 2          \* topics of the catalog, all of them toggled (SpecSub)
SubMessages == 1        \* messages in the stream (SpecSub)
ScenarioHeights == 30   \* terminal heights the scenario is run under (SpecScenario)
StreamTopics == 2       \* topics of the catalog (SpecStream)
StreamMessages == 3     \* messages in the stream (SpecStream)
RegTopics == 2          \* topics the broker publishes on (SpecRegistry)
RegMessages == 1        \* messages in the stream (SpecRegistry)
RegSnapshots == 1       \* DiscoverTopicsCmd running at a time (SpecRegistry)

(***************************************************************************)
(* Constants of the program.                                               *)
(***************************************************************************)
FollowMargin == 5        \* ui.go:467
HeaderLines == 4         \* ui.go:176
MinAvailableHeight == 10 \* ui.go:177
PaneChrome == 3          \* ui.go:239, ui.go:319

TopicsPane == "TopicsPane"
MessagesPane == "MessagesPane"

VARIABLES
    ui,          \* the UI struct of ui.go
    quitting,    \* App.quitting
    pc,          \* the loop: "idle" (waiting for an event), "view" (Update
                 \* returned, View not yet called), "done" (after tea.Quit)
    msg,         \* the event Update was called with in this iteration
    before,      \* the UI struct as it was when that call began
    cmds,        \* the commands that call of Update returned
    reconciled,  \* whether that call ran handleSubscriptionChanges
    status,      \* the connection of the MQTT client: "new", "connected",
                 \* "lost" (the client is reconnecting), "closed"
    brokerSubs,  \* topic filters the broker holds for this client (0 is "#")
    discoveredTopics, \* MQTTClient.discoveredTopics
    inflight,    \* commands started and not yet finished (a bag)
    inbox,       \* events posted to the program and not yet taken (a bag)
    oldSubscribed, newSubscribed, \* arguments of handleSubscriptionChanges
                 \* (used by the specification of the diff alone)
    script,      \* events the user and the broker have still to produce
                 \* (used by the specification of the scenario alone)
    topicsMutex, \* MQTTClient.topicsMutex: whether it is write-locked and
                 \* the number of read locks held
    goroutines   \* where discoveryHandler and the running DiscoverTopicsCmd
                 \* stand in their code (both used by the specification of
                 \* the registry alone)

coreVars == <<ui, quitting, pc, msg, before, cmds, reconciled>>
gatewayVars == <<status, brokerSubs, discoveredTopics, inflight, inbox>>
diffVars == <<oldSubscribed, newSubscribed, script, topicsMutex, goroutines>>
vars == <<ui, quitting, pc, msg, before, cmds, reconciled, status, brokerSubs,
          discoveredTopics, inflight, inbox, oldSubscribed, newSubscribed,
          script, topicsMutex, goroutines>>

(***************************************************************************)
(* Small helpers.                                                          *)
(***************************************************************************)
Max(a, b) == IF a > b THEN a ELSE b
Min(a, b) == IF a < b THEN a ELSE b
Range(s) == {s[i] : i \in DOMAIN s}

\* Variant of the map write that forgets every other key.
MapPutDropsOthers(m, k, v) == [x \in {k} |-> v]

\* A Go map[string]bool read at a key: the zero value for an absent key.
MapGet(m, k) == IF k \in DOMAIN m THEN m[k] ELSE FALSE
\* m[k] = v on a Go map.
MapPut(m, k, v) == [x \in DOMAIN m \cup {k} |-> IF x = k THEN v ELSE m[x]]

\* sort.Strings: insertion of each element into an ascending sequence.
RECURSIVE InsertSorted(_, _)
InsertSorted(x, s) ==
    IF s = <<>> THEN <<x>>
    ELSE IF x <= Head(s) THEN <<x>> \o s
    ELSE <<Head(s)>> \o InsertSorted(x, Tail(s))

\* Variant of SortStrings that leaves the slice in the order it came.
SortStringsAsGiven(s) == s

RECURSIVE SortStrings(_)
SortStrings(s) ==
    IF s = <<>> THEN <<>> ELSE InsertSorted(Head(s), SortStrings(Tail(s)))

(***************************************************************************)
(* Events (tea.Msg).  One record shape for all of them; a field an event   *)
(* does not have holds a default.                                          *)
(***************************************************************************)
NoErr == [op |-> "none", topic |-> 0]
BlankMsg == [type |-> "none", key |-> "", w |-> 0, h |-> 0, topics |-> <<>>,
             topic |-> 0, payload |-> "", ts |-> 0, err |-> NoErr]
KeyMsg(k) == [BlankMsg EXCEPT !.type = "KeyMsg", !.key = k]
WindowSizeMsg(w, h) == [BlankMsg EXCEPT !.type = "WindowSizeMsg", !.w = w, !.h = h]
MQTTConnectedMsg == [BlankMsg EXCEPT !.type = "MQTTConnectedMsg"]
MQTTTopicsDiscoveredMsg(ts) ==
    [BlankMsg EXCEPT !.type = "MQTTTopicsDiscoveredMsg", !.topics = ts]
MQTTMessageMsg(t, p, at) ==
    [BlankMsg EXCEPT !.type = "MQTTMessageMsg", !.topic = t, !.payload = p, !.ts = at]
MQTTErrorMsg(op, t) ==
    [BlankMsg EXCEPT !.type = "MQTTErrorMsg", !.err = [op |-> op, topic |-> t]]

Keys == {"tab", "up", "k", "down", "j", "enter", " ", "r", "q", "ctrl+c", "x"}
Sizes == {<<0, 0>>, <<80, 0>>, <<80, 10>>, <<80, 15>>}
KeyEvents == {KeyMsg(k) : k \in Keys}
SizeEvents == {WindowSizeMsg(s[1], s[2]) : s \in Sizes}

\* fmt.Sprintf("MQTT Error: %v", err) for the errors the gateway produces.
TopicName(t) == "t" \o ToString(t)
ErrorString(e) ==
    CASE e.op = "subscribe" -> "failed to subscribe to " \o TopicName(e.topic)
      [] e.op = "unsubscribe" -> "failed to unsubscribe from " \o TopicName(e.topic)
      [] OTHER -> e.op
FormatError(e) == "MQTT Error: " \o ErrorString(e)

(***************************************************************************)
(* Commands (tea.Cmd).                                                     *)
(***************************************************************************)
Cmd(op, t) == [op |-> op, topic |-> t]
ConnectCmd == Cmd("connect", 0)
DiscoverTopicsCmd == Cmd("discover", 0)
subscribeToTopicCmd(t) == Cmd("subscribe", t)
unsubscribeFromTopicCmd(t) == Cmd("unsubscribe", t)
IsSubscriptionCmd(c) == c.op \in {"subscribe", "unsubscribe"}

(***************************************************************************)
(* The registry of discovered topics (mqtt.go): sync.RWMutex and the       *)
(* goroutines that use it.                                                 *)
(***************************************************************************)
Unlocked == [writer |-> FALSE, readers |-> 0]

\* Variants of the lock conditions that let everybody in.
CanLockUnguarded(mu) == TRUE
CanRLockUnguarded(mu) == TRUE

\* topicsMutex.Lock() returns when nobody holds the mutex; topicsMutex.RLock()
\* when nobody holds it for writing.
CanLock(mu) == ~mu.writer /\ mu.readers = 0
CanRLock(mu) == ~mu.writer

\* discoveryHandler is idle until the client calls it; a DiscoverTopicsCmd is
\* asleep until its two seconds are over.  at is the registry as it was when
\* the command took the read lock, last the set of topics of the list that
\* was handed to the core last.
IdleHandler == [pc |-> "idle", topic |-> 0]
SleepingCmd == [pc |-> "sleep", topics |-> <<>>, at |-> {}]
NoGoroutines == [handler |-> IdleHandler, snap |-> <<>>, last |-> {}]

(***************************************************************************)
(* ui.go                                                                   *)
(***************************************************************************)
NewUI ==
    [topics |-> <<>>, selectedTopic |-> 0, topicScroll |-> 0,
     subscribedTopics |-> <<>>, messages |-> <<>>, messageScroll |-> 0,
     width |-> 0, height |-> 0, activePane |-> TopicsPane, error |-> ""]

\* Go slices are indexed from 0, TLA+ sequences from 1.
TopicAt(u, i) == u.topics[i + 1]

\* Variant of handleKeyPress whose toggle does not look at the focus.
handleKeyPressToggleAnyFocus(u, key) ==
    CASE key = "tab" ->
           [u EXCEPT !.activePane =
                IF u.activePane = TopicsPane THEN MessagesPane ELSE TopicsPane]
      [] key \in {"up", "k"} ->
           IF u.activePane = TopicsPane
           THEN IF u.selectedTopic > 0
                THEN [u EXCEPT !.selectedTopic = u.selectedTopic - 1] ELSE u
           ELSE IF u.messageScroll > 0
                THEN [u EXCEPT !.messageScroll = u.messageScroll - 1] ELSE u
      [] key \in {"down", "j"} ->
           IF u.activePane = TopicsPane
           THEN IF u.selectedTopic < Len(u.topics) - 1
                THEN [u EXCEPT !.selectedTopic = u.selectedTopic + 1] ELSE u
           ELSE IF u.messageScroll < Len(u.messages) - 1
                THEN [u EXCEPT !.messageScroll = u.messageScroll + 1] ELSE u
      [] key \in {"enter", " "} ->
           IF Len(u.topics) > 0
           THEN [u EXCEPT !.subscribedTopics =
                    MapPut(u.subscribedTopics, TopicAt(u, u.selectedTopic),
                           ~MapGet(u.subscribedTopics, TopicAt(u, u.selectedTopic)))]
           ELSE u
      [] key = "r" ->
           [u EXCEPT !.messages = <<>>, !.messageScroll = 0]
      [] OTHER -> u

\* Variant of handleKeyPress whose reset leaves the message cursor.
handleKeyPressResetKeepsCursor(u, key) ==
    CASE key = "tab" ->
           [u EXCEPT !.activePane =
                IF u.activePane = TopicsPane THEN MessagesPane ELSE TopicsPane]
      [] key \in {"up", "k"} ->
           IF u.activePane = TopicsPane
           THEN IF u.selectedTopic > 0
                THEN [u EXCEPT !.selectedTopic = u.selectedTopic - 1] ELSE u
           ELSE IF u.messageScroll > 0
                THEN [u EXCEPT !.messageScroll = u.messageScroll - 1] ELSE u
      [] key \in {"down", "j"} ->
           IF u.activePane = TopicsPane
           THEN IF u.selectedTopic < Len(u.topics) - 1
                THEN [u EXCEPT !.selectedTopic = u.selectedTopic + 1] ELSE u
           ELSE IF u.messageScroll < Len(u.messages) - 1
                THEN [u EXCEPT !.messageScroll = u.messageScroll + 1] ELSE u
      [] key \in {"enter", " "} ->
           IF u.activePane = TopicsPane /\ Len(u.topics) > 0
           THEN [u EXCEPT !.subscribedTopics =
                    MapPut(u.subscribedTopics, TopicAt(u, u.selectedTopic),
                           ~MapGet(u.subscribedTopics, TopicAt(u, u.selectedTopic)))]
           ELSE u
      [] key = "r" ->
           [u EXCEPT !.messages = <<>>]
      [] OTHER -> u

\* Variant of handleKeyPress whose scroll down has no upper limit.
handleKeyPressScrollUnclamped(u, key) ==
    CASE key = "tab" ->
           [u EXCEPT !.activePane =
                IF u.activePane = TopicsPane THEN MessagesPane ELSE TopicsPane]
      [] key \in {"up", "k"} ->
           IF u.activePane = TopicsPane
           THEN IF u.selectedTopic > 0
                THEN [u EXCEPT !.selectedTopic = u.selectedTopic - 1] ELSE u
           ELSE IF u.messageScroll > 0
                THEN [u EXCEPT !.messageScroll = u.messageScroll - 1] ELSE u
      [] key \in {"down", "j"} ->
           IF u.activePane = TopicsPane
           THEN IF u.selectedTopic < Len(u.topics) - 1
                THEN [u EXCEPT !.selectedTopic = u.selectedTopic + 1] ELSE u
           ELSE IF TRUE
                THEN [u EXCEPT !.messageScroll = u.messageScroll + 1] ELSE u
      [] key \in {"enter", " "} ->
           IF u.activePane = TopicsPane /\ Len(u.topics) > 0
           THEN [u EXCEPT !.subscribedTopics =
                    MapPut(u.subscribedTopics, TopicAt(u, u.selectedTopic),
                           ~MapGet(u.subscribedTopics, TopicAt(u, u.selectedTopic)))]
           ELSE u
      [] key = "r" ->
           [u EXCEPT !.messages = <<>>, !.messageScroll = 0]
      [] OTHER -> u

\* Variant of handleKeyPress whose tab also moves the message cursor to 0.
handleKeyPressTabResetsCursor(u, key) ==
    CASE key = "tab" ->
           [u EXCEPT !.messageScroll = 0, !.activePane =
                IF u.activePane = TopicsPane THEN MessagesPane ELSE TopicsPane]
      [] key \in {"up", "k"} ->
           IF u.activePane = TopicsPane
           THEN IF u.selectedTopic > 0
                THEN [u EXCEPT !.selectedTopic = u.selectedTopic - 1] ELSE u
           ELSE IF u.messageScroll > 0
                THEN [u EXCEPT !.messageScroll = u.messageScroll - 1] ELSE u
      [] key \in {"down", "j"} ->
           IF u.activePane = TopicsPane
           THEN IF u.selectedTopic < Len(u.topics) - 1
                THEN [u EXCEPT !.selectedTopic = u.selectedTopic + 1] ELSE u
           ELSE IF u.messageScroll < Len(u.messages) - 1
                THEN [u EXCEPT !.messageScroll = u.messageScroll + 1] ELSE u
      [] key \in {"enter", " "} ->
           IF u.activePane = TopicsPane /\ Len(u.topics) > 0
           THEN [u EXCEPT !.subscribedTopics =
                    MapPut(u.subscribedTopics, TopicAt(u, u.selectedTopic),
                           ~MapGet(u.subscribedTopics, TopicAt(u, u.selectedTopic)))]
           ELSE u
      [] key = "r" ->
           [u EXCEPT !.messages = <<>>, !.messageScroll = 0]
      [] OTHER -> u

handleKeyPress(u, key) ==
    CASE key = "tab" ->
           [u EXCEPT !.activePane =
                IF u.activePane = TopicsPane THEN MessagesPane ELSE TopicsPane]
      [] key \in {"up", "k"} ->
           IF u.activePane = TopicsPane
           THEN IF u.selectedTopic > 0
                THEN [u EXCEPT !.selectedTopic = u.selectedTopic - 1] ELSE u
           ELSE IF u.messageScroll > 0
                THEN [u EXCEPT !.messageScroll = u.messageScroll - 1] ELSE u
      [] key \in {"down", "j"} ->
           IF u.activePane = TopicsPane
           THEN IF u.selectedTopic < Len(u.topics) - 1
                THEN [u EXCEPT !.selectedTopic = u.selectedTopic + 1] ELSE u
           ELSE IF u.messageScroll < Len(u.messages) - 1
                THEN [u EXCEPT !.messageScroll = u.messageScroll + 1] ELSE u
      [] key \in {"enter", " "} ->
           IF u.activePane = TopicsPane /\ Len(u.topics) > 0
           THEN [u EXCEPT !.subscribedTopics =
                    MapPut(u.subscribedTopics, TopicAt(u, u.selectedTopic),
                           ~MapGet(u.subscribedTopics, TopicAt(u, u.selectedTopic)))]
           ELSE u
      [] key = "r" ->
           [u EXCEPT !.messages = <<>>, !.messageScroll = 0]
      [] OTHER -> u

\* Variant of UI.Update that drops key presses.
UIUpdateIgnoresKeys(u, m) ==
    CASE m.type = "WindowSizeMsg" -> [u EXCEPT !.width = m.w, !.height = m.h]
      [] OTHER -> u

\* UI.Update
UIUpdate(u, m) ==
    CASE m.type = "WindowSizeMsg" -> [u EXCEPT !.width = m.w, !.height = m.h]
      [] m.type = "KeyMsg" -> handleKeyPress(u, m.key)
      [] OTHER -> u

\* Variant of SetTopics that keeps the selection as it is.
SetTopicsKeepsSelection(u, topics) ==
    [u EXCEPT !.topics = SortStrings(topics), !.topicScroll = 0]

\* Variant of SetTopics that forgets the flags of topics the new catalog
\* does not list.
SetTopicsPrunesSubscriptions(u, topics) ==
    LET sorted == SortStrings(topics)
        sel1 == IF u.selectedTopic >= Len(sorted) THEN Len(sorted) - 1
                ELSE u.selectedTopic
        sel2 == IF sel1 < 0 THEN 0 ELSE sel1
        kept == DOMAIN u.subscribedTopics \cap Range(topics)
    IN  [u EXCEPT !.topics = sorted, !.selectedTopic = sel2, !.topicScroll = 0,
                  !.subscribedTopics = [t \in kept |-> u.subscribedTopics[t]]]

\* Variant of SetTopics that leaves the topic scroll position as it is.
SetTopicsKeepsScroll(u, topics) ==
    LET sorted == SortStrings(topics)
        sel1 == IF u.selectedTopic >= Len(sorted) THEN Len(sorted) - 1
                ELSE u.selectedTopic
        sel2 == IF sel1 < 0 THEN 0 ELSE sel1
    IN  [u EXCEPT !.topics = sorted, !.selectedTopic = sel2]

SetTopics(u, topics) ==
    LET sorted == SortStrings(topics)
        sel1 == IF u.selectedTopic >= Len(sorted) THEN Len(sorted) - 1
                ELSE u.selectedTopic
        sel2 == IF sel1 < 0 THEN 0 ELSE sel1
    IN  [u EXCEPT !.topics = sorted, !.selectedTopic = sel2, !.topicScroll = 0]

\* Variant of AddMessage that never moves the cursor.
AddMessageNeverFollows(u, topic, payload, timestamp) ==
    [u EXCEPT !.messages =
        Append(u.messages,
               [Topic |-> topic, Payload |-> payload, Timestamp |-> timestamp])]

\* Variant of AddMessage that moves the cursor to the tail on every append.
AddMessageAlwaysFollows(u, topic, payload, timestamp) ==
    LET msgs == Append(u.messages,
                       [Topic |-> topic, Payload |-> payload, Timestamp |-> timestamp])
    IN  [u EXCEPT !.messages = msgs, !.messageScroll = Max(Len(msgs) - 1, 0)]

\* Variant of AddMessage that puts the new message at the head.
AddMessageAtHead(u, topic, payload, timestamp) ==
    LET message == [Topic |-> topic, Payload |-> payload, Timestamp |-> timestamp]
        msgs == <<message>> \o u.messages
    IN  IF u.activePane = MessagesPane \/ u.messageScroll >= Len(msgs) - FollowMargin
        THEN [u EXCEPT !.messages = msgs, !.messageScroll = Max(Len(msgs) - 1, 0)]
        ELSE [u EXCEPT !.messages = msgs]

AddMessage(u, topic, payload, timestamp) ==
    LET message == [Topic |-> topic, Payload |-> payload, Timestamp |-> timestamp]
        msgs == Append(u.messages, message)
    IN  IF u.activePane = MessagesPane \/ u.messageScroll >= Len(msgs) - FollowMargin
        THEN [u EXCEPT !.messages = msgs, !.messageScroll = Max(Len(msgs) - 1, 0)]
        ELSE [u EXCEPT !.messages = msgs]

\* Variant of SetError that also takes back every desired flag.
SetErrorClearsDesired(u, err) ==
    [u EXCEPT !.error = err, !.subscribedTopics = <<>>]

SetError(u, err) == [u EXCEPT !.error = err]

\* The slice GetSubscribedTopics returns, in the order the map iteration
\* happens to produce: any arrangement of the topics whose flag is true.
SubscribedSet(u) ==
    {t \in DOMAIN u.subscribedTopics : u.subscribedTopics[t]}
RECURSIVE SeqOfSet(_)
SeqOfSet(S) ==
    IF S = {} THEN <<>>
    ELSE LET x == CHOOSE y \in S : TRUE IN <<x>> \o SeqOfSet(S \ {x})
GetSubscribedTopics(u) == SeqOfSet(SubscribedSet(u))

\* Variant of updateTopicScroll without the final clamp to maxScroll.
updateTopicScrollNoMax(u, visibleLines) ==
    IF Len(u.topics) = 0 THEN [u EXCEPT !.topicScroll = 0]
    ELSE
    LET sel1 == IF u.selectedTopic < 0 THEN 0 ELSE u.selectedTopic
        sel == IF sel1 >= Len(u.topics) THEN Len(u.topics) - 1 ELSE sel1
        s1 == IF sel < u.topicScroll THEN sel
              ELSE IF sel >= u.topicScroll + visibleLines
                   THEN sel - visibleLines + 1
                   ELSE u.topicScroll
        s2 == IF s1 < 0 THEN 0 ELSE s1
    IN  [u EXCEPT !.selectedTopic = sel, !.topicScroll = s2]

\* Variant of updateTopicScroll that scrolls one row short when the
\* selection leaves the window at its lower end.
updateTopicScrollOneShort(u, visibleLines) ==
    IF Len(u.topics) = 0 THEN [u EXCEPT !.topicScroll = 0]
    ELSE
    LET sel1 == IF u.selectedTopic < 0 THEN 0 ELSE u.selectedTopic
        sel == IF sel1 >= Len(u.topics) THEN Len(u.topics) - 1 ELSE sel1
        s1 == IF sel < u.topicScroll THEN sel
              ELSE IF sel >= u.topicScroll + visibleLines
                   THEN sel - visibleLines
                   ELSE u.topicScroll
        s2 == IF s1 < 0 THEN 0 ELSE s1
        maxScroll == Max(Len(u.topics) - visibleLines, 0)
        s3 == IF s2 > maxScroll THEN maxScroll ELSE s2
    IN  [u EXCEPT !.selectedTopic = sel, !.topicScroll = s3]

updateTopicScroll(u, visibleLines) ==
    IF Len(u.topics) = 0 THEN [u EXCEPT !.topicScroll = 0]
    ELSE
    LET sel1 == IF u.selectedTopic < 0 THEN 0 ELSE u.selectedTopic
        sel == IF sel1 >= Len(u.topics) THEN Len(u.topics) - 1 ELSE sel1
        s1 == IF sel < u.topicScroll THEN sel
              ELSE IF sel >= u.topicScroll + visibleLines
                   THEN sel - visibleLines + 1
                   ELSE u.topicScroll
        s2 == IF s1 < 0 THEN 0 ELSE s1
        maxScroll == Max(Len(u.topics) - visibleLines, 0)
        s3 == IF s2 > maxScroll THEN maxScroll ELSE s2
    IN  [u EXCEPT !.selectedTopic = sel, !.topicScroll = s3]

\* availableLines of renderTopicsPane and renderMessagesPane.
AvailableLines(height) == Max(height - PaneChrome, 1)

\* What renderTopicsPane does to the UI.
renderTopicsPane(u, width, height) ==
    IF Len(u.topics) = 0 THEN u
    ELSE updateTopicScroll(u, AvailableLines(height))

\* Variant of renderMessagesPane that leaves the cursor as it finds it.
renderMessagesPaneNoClamp(u, width, height) == u

\* What renderMessagesPane does to the UI.
renderMessagesPane(u, width, height) ==
    IF Len(u.messages) = 0 THEN u
    ELSE LET maxScroll == Max(Len(u.messages) - AvailableLines(height), 0)
             s1 == IF u.messageScroll > maxScroll THEN maxScroll ELSE u.messageScroll
             s2 == IF s1 < 0 THEN 0 ELSE s1
         IN  [u EXCEPT !.messageScroll = s2]

\* availableHeight, topicsWidth and messagesWidth of UI.View.
AvailableHeight(u) == Max(u.height - HeaderLines, MinAvailableHeight)
TopicsWidth(u) == Max(u.width \div 3, 20)
MessagesWidth(u) == Max(u.width - TopicsWidth(u) - 2, 30)

\* Whether UI.View lays the panes out at all.
LaidOut(u) == ~(u.width = 0 \/ u.height = 0)

\* What UI.View does to the UI.
UIView(u) ==
    IF ~LaidOut(u) THEN u
    ELSE renderMessagesPane(
             renderTopicsPane(u, TopicsWidth(u), AvailableHeight(u)),
             MessagesWidth(u), AvailableHeight(u))

\* The number of rows either pane shows.
VisibleLines(u) == AvailableLines(AvailableHeight(u))

\* Indices (from 0) of the entries the panes show: startIdx .. endIdx - 1.
TopicWindow(u) ==
    u.topicScroll .. (Min(u.topicScroll + VisibleLines(u), Len(u.topics)) - 1)
MessageWindow(u) ==
    u.messageScroll .. (Min(u.messageScroll + VisibleLines(u), Len(u.messages)) - 1)


(***************************************************************************)
(* main.go                                                                 *)
(***************************************************************************)
\* Variant of handleSubscriptionChanges whose second loop leaves out the
\* test against newMap.
handleSubscriptionChangesUnsubscribeAll(oldSub, newSub) ==
    LET oldMap == [t \in Range(oldSub) |-> TRUE]
        newMap == [t \in Range(newSub) |-> TRUE]
    IN  {subscribeToTopicCmd(t) : t \in {x \in DOMAIN newMap : ~MapGet(oldMap, x)}}
        \cup
        {unsubscribeFromTopicCmd(t) : t \in DOMAIN oldMap}

\* The commands handleSubscriptionChanges returns.  The two maps are built
\* from the slices; the order of the result is the order of two map
\* iterations and tea.Batch runs the commands concurrently, so the result
\* is kept as a set.
handleSubscriptionChanges(oldSub, newSub) ==
    LET oldMap == [t \in Range(oldSub) |-> TRUE]
        newMap == [t \in Range(newSub) |-> TRUE]
    IN  {subscribeToTopicCmd(t) : t \in {x \in DOMAIN newMap : ~MapGet(oldMap, x)}}
        \cup
        {unsubscribeFromTopicCmd(t) : t \in {x \in DOMAIN oldMap : ~MapGet(newMap, x)}}

\* Variant of Reconcile that runs the diff whatever the gateway reports.
ReconcileAlways(isConnected, oldS, newS) ==
    handleSubscriptionChanges(oldS, newS)

\* Variant of the end of App.Update that subscribes to every desired topic
\* anew, whatever was desired before the event.
ReconcileFromScratch(isConnected, oldS, newS) ==
    IF isConnected THEN handleSubscriptionChanges(<<>>, newS) ELSE {}

\* The end of App.Update: the diff runs only if a.mqtt.IsConnected()
\* (a.mqtt is never nil: NewMQTTClient returns no error).
Reconcile(isConnected, oldS, newS) ==
    IF isConnected THEN handleSubscriptionChanges(oldS, newS) ELSE {}

\* Variant of App.Update that unsubscribes from every desired topic on quit.
AppUpdateQuitUnsubscribes(u, isConnected, m) ==
    IF m.type = "WindowSizeMsg"
    THEN [ui |-> UIUpdate(u, m), cmds |-> {}, quit |-> FALSE, reconciled |-> FALSE]
    ELSE IF m.type = "KeyMsg" /\ m.key \in {"ctrl+c", "q"}
    THEN [ui |-> u, cmds |-> {unsubscribeFromTopicCmd(t) : t \in SubscribedSet(u)},
          quit |-> TRUE, reconciled |-> FALSE]
    ELSE
    LET first == IF m.type = "MQTTConnectedMsg" THEN {DiscoverTopicsCmd} ELSE {}
        u1 == CASE m.type = "MQTTTopicsDiscoveredMsg" -> SetTopics(u, m.topics)
                [] m.type = "MQTTMessageMsg" -> AddMessage(u, m.topic, m.payload, m.ts)
                [] m.type = "MQTTErrorMsg" -> SetError(u, FormatError(m.err))
                [] OTHER -> u
        oldS == GetSubscribedTopics(u1)
        u2 == UIUpdate(u1, m)
        diff == Reconcile(isConnected, oldS, GetSubscribedTopics(u2))
    IN  [ui |-> u2, cmds |-> first \cup diff, quit |-> FALSE,
         reconciled |-> isConnected]

\* App.Update on event m, with isConnected what a.mqtt.IsConnected() answers.
\* The result: the UI it leaves, the commands it returns, whether it returned
\* tea.Quit (after a.mqtt.Disconnect()), whether it ran the diff.
AppUpdate(u, isConnected, m) ==
    IF m.type = "WindowSizeMsg"
    THEN [ui |-> UIUpdate(u, m), cmds |-> {}, quit |-> FALSE, reconciled |-> FALSE]
    ELSE IF m.type = "KeyMsg" /\ m.key \in {"ctrl+c", "q"}
    THEN [ui |-> u, cmds |-> {}, quit |-> TRUE, reconciled |-> FALSE]
    ELSE
    LET first == IF m.type = "MQTTConnectedMsg" THEN {DiscoverTopicsCmd} ELSE {}
        u1 == CASE m.type = "MQTTTopicsDiscoveredMsg" -> SetTopics(u, m.topics)
                [] m.type = "MQTTMessageMsg" -> AddMessage(u, m.topic, m.payload, m.ts)
                [] m.type = "MQTTErrorMsg" -> SetError(u, FormatError(m.err))
                [] OTHER -> u
        oldS == GetSubscribedTopics(u1)
        u2 == UIUpdate(u1, m)
        diff == Reconcile(isConnected, oldS, GetSubscribedTopics(u2))
    IN  [ui |-> u2, cmds |-> first \cup diff, quit |-> FALSE,
         reconciled |-> isConnected]

\* App.View
AppView(u, quit) == IF quit THEN u ELSE UIView(u)

(***************************************************************************)
(* The event loop.                                                         *)
(***************************************************************************)
\* MQTTClient.IsConnected
IsConnected == status = "connected"

\* One call of App.Update.  a.mqtt.Disconnect() on quit closes the
\* connection, and with it the broker's subscriptions of this client.
Handle(m) ==
    /\ pc = "idle"
    /\ LET r == AppUpdate(ui, IsConnected, m)
       IN  /\ ui' = r.ui
           /\ quitting' = r.quit
           /\ cmds' = r.cmds
           /\ reconciled' = r.reconciled
           /\ status' = IF r.quit THEN "closed" ELSE status
           /\ brokerSubs' = IF r.quit THEN {} ELSE brokerSubs
    /\ msg' = m
    /\ before' = ui
    /\ pc' = "view"

\* The call of App.View that follows every Update.
Render ==
    /\ pc = "view"
    /\ ui' = AppView(ui, quitting)
    /\ pc' = IF quitting THEN "done" ELSE "idle"
    /\ msg' = BlankMsg
    /\ before' = NewUI
    /\ cmds' = {}
    /\ reconciled' = FALSE
    /\ UNCHANGED <<quitting, gatewayVars, diffVars>>


(***************************************************************************)
(* mqtt.go: the gateway.  The paho client and the broker are outside the   *)
(* repository; they are modelled by what the handlers and commands of      *)
(* mqtt.go see of them.  A step of the gateway that touches no core state  *)
(* commutes with Render, so such steps are taken while the loop is idle.   *)
(*                                                                         *)
(* p.Send blocks until the loop takes the event (the channel of a          *)
(* tea.Program is unbuffered).  inbox holds the senders that may be        *)
(* overtaken by other events while they wait: the two MQTTConnectedMsg of  *)
(* a connection, a discovery snapshot, the error of a lost connection.     *)
(* A broker message and the error a failed command returns are handed to   *)
(* the loop in the step that produces them.                                *)
(***************************************************************************)
Topics == 1..NumTopics
Wildcard == 0            \* the filter "#"
Payloads == {"on"}

Posted(type, S) == [type |-> type, topics |-> S]
PostedConnected == Posted("MQTTConnectedMsg", {})
PostedLost == Posted("MQTTErrorMsg", {})

\* The orders in which a map iteration can produce the elements of S.
Arrangements(S) ==
    {s \in [1..Cardinality(S) -> S] : Range(s) = S}

\* The events a waiting sender may hand over.
MsgsOf(p) ==
    CASE p.type = "MQTTConnectedMsg" -> {MQTTConnectedMsg}
      [] p.type = "MQTTErrorMsg" -> {MQTTErrorMsg("connection lost", 0)}
      [] OTHER -> {MQTTTopicsDiscoveredMsg(s) : s \in Arrangements(p.topics)}

One(x) == SetToBag({x})

\* The loop takes event m: Update runs and the commands it returned start.
\* fl and ib are the commands and senders left once m's sender is gone.
Dispatch(m, fl, ib) ==
    /\ Handle(m)
    /\ inflight' = fl (+) SetToBag(cmds')
    /\ BagCardinality(inflight') <= MaxInflight
    /\ inbox' = ib
    /\ UNCHANGED diffVars

\* A key press or a resize of the terminal.
UserEvent ==
    \E m \in KeyEvents \cup {WindowSizeMsg(80, 10)} :
        /\ Dispatch(m, inflight, inbox)
        /\ UNCHANGED discoveredTopics

\* The loop takes the event of a waiting sender.
TakePosted ==
    \E p \in BagToSet(inbox) : \E m \in MsgsOf(p) :
        /\ Dispatch(m, inflight, inbox (-) One(p))
        /\ UNCHANGED discoveredTopics

\* ConnectCmd succeeds and returns MQTTConnectedMsg.  The client also
\* calls connectHandler, on a goroutine of its own.
OnConnect == Cmd("connectHandler", 0)
ConnectOk ==
    /\ pc = "idle"
    /\ BagIn(ConnectCmd, inflight)
    /\ BagCardinality(inbox) + 1 <= MaxInbox
    /\ status' = "connected"
    /\ inflight' = (inflight (-) One(ConnectCmd)) (+) One(OnConnect)
    /\ inbox' = inbox (+) One(PostedConnected)
    /\ UNCHANGED <<coreVars, brokerSubs, discoveredTopics, diffVars>>

\* connectHandler sends MQTTConnectedMsg.
ConnectHandler ==
    /\ pc = "idle"
    /\ BagIn(OnConnect, inflight)
    /\ BagCardinality(inbox) + 1 <= MaxInbox
    /\ inflight' = inflight (-) One(OnConnect)
    /\ inbox' = inbox (+) One(PostedConnected)
    /\ UNCHANGED <<coreVars, status, brokerSubs, discoveredTopics, diffVars>>

\* ConnectCmd fails and returns MQTTErrorMsg.
ConnectFail ==
    /\ BagIn(ConnectCmd, inflight)
    /\ Dispatch(MQTTErrorMsg("connect", 0), inflight (-) One(ConnectCmd), inbox)
    /\ UNCHANGED discoveredTopics


\* The connection drops: connectionLostHandler sends MQTTErrorMsg.  The
\* broker forgets the subscriptions of the session.
ConnectionLost ==
    /\ pc = "idle"
    /\ status = "connected"
    /\ BagCardinality(inbox) + 1 <= MaxInbox
    /\ status' = "lost"
    /\ brokerSubs' = {}
    /\ inbox' = inbox (+) One(PostedLost)
    /\ UNCHANGED <<coreVars, discoveredTopics, inflight, diffVars>>

\* The client reconnects on its own and calls connectHandler again.
Reconnect ==
    /\ pc = "idle"
    /\ status = "lost"
    /\ BagCardinality(inflight) + 1 <= MaxInflight
    /\ status' = "connected"
    /\ inflight' = inflight (+) One(OnConnect)
    /\ UNCHANGED <<coreVars, brokerSubs, discoveredTopics, inbox, diffVars>>

\* DiscoverTopicsCmd, first half: Subscribe("#", 0, discoveryHandler)
\* succeeds and the command sleeps.
CollectCmd == Cmd("collect", 0)
DiscoverSubscribed ==
    /\ pc = "idle"
    /\ IsConnected
    /\ BagIn(DiscoverTopicsCmd, inflight)
    /\ brokerSubs' = brokerSubs \cup {Wildcard}
    /\ inflight' = (inflight (-) One(DiscoverTopicsCmd)) (+) One(CollectCmd)
    /\ UNCHANGED <<coreVars, status, discoveredTopics, inbox, diffVars>>

\* DiscoverTopicsCmd: the subscription fails and the command returns
\* MQTTErrorMsg.
DiscoverFail ==
    /\ BagIn(DiscoverTopicsCmd, inflight)
    /\ Dispatch(MQTTErrorMsg("discover", 0),
                inflight (-) One(DiscoverTopicsCmd), inbox)
    /\ UNCHANGED discoveredTopics

\* DiscoverTopicsCmd, second half: after the sleep it copies the keys of
\* discoveredTopics under the read lock and returns them.
DiscoverSnapshot ==
    /\ pc = "idle"
    /\ BagIn(CollectCmd, inflight)
    /\ BagCardinality(inbox) + 1 <= MaxInbox
    /\ inflight' = inflight (-) One(CollectCmd)
    /\ inbox' = inbox (+) One(Posted("MQTTTopicsDiscoveredMsg", discoveredTopics))
    /\ UNCHANGED <<coreVars, status, brokerSubs, discoveredTopics, diffVars>>

\* The broker delivers a message on topic t.  Under the "#" subscription
\* discoveryHandler records the topic before it passes the message on;
\* under a subscription to t itself messageHandler sends it.
Deliver ==
    \E t \in Topics, p \in Payloads :
        /\ IsConnected
        /\ Wildcard \in brokerSubs \/ t \in brokerSubs
        /\ Len(ui.messages) < MaxMessages
        /\ discoveredTopics' =
              IF Wildcard \in brokerSubs THEN discoveredTopics \cup {t}
              ELSE discoveredTopics
        /\ Dispatch(MQTTMessageMsg(t, p, 0), inflight, inbox)

\* SubscribeToTopic(t) succeeds; the command returns nil, which the loop
\* drops.
SubscribeOk ==
    \E t \in Topics :
        /\ pc = "idle"
        /\ IsConnected
        /\ BagIn(subscribeToTopicCmd(t), inflight)
        /\ brokerSubs' = brokerSubs \cup {t}
        /\ inflight' = inflight (-) One(subscribeToTopicCmd(t))
        /\ UNCHANGED <<coreVars, status, discoveredTopics, inbox, diffVars>>

\* SubscribeToTopic(t) fails; the command returns MQTTErrorMsg.
SubscribeFail ==
    \E t \in Topics :
        /\ BagIn(subscribeToTopicCmd(t), inflight)
        /\ Dispatch(MQTTErrorMsg("subscribe", t),
                    inflight (-) One(subscribeToTopicCmd(t)), inbox)
        /\ UNCHANGED discoveredTopics

\* UnsubscribeFromTopic(t) succeeds.
UnsubscribeOk ==
    \E t \in Topics :
        /\ pc = "idle"
        /\ IsConnected
        /\ BagIn(unsubscribeFromTopicCmd(t), inflight)
        /\ brokerSubs' = brokerSubs \ {t}
        /\ inflight' = inflight (-) One(unsubscribeFromTopicCmd(t))
        /\ UNCHANGED <<coreVars, status, discoveredTopics, inbox, diffVars>>

\* UnsubscribeFromTopic(t) fails; the command returns MQTTErrorMsg.
UnsubscribeFail ==
    \E t \in Topics :
        /\ BagIn(unsubscribeFromTopicCmd(t), inflight)
        /\ Dispatch(MQTTErrorMsg("unsubscribe", t),
                    inflight (-) One(unsubscribeFromTopicCmd(t)), inbox)
        /\ UNCHANGED discoveredTopics

(***************************************************************************)
(* Spec: the program, from NewApp and App.Init on.                         *)
(***************************************************************************)
Init ==
    /\ ui = NewUI
    /\ quitting = FALSE
    /\ pc = "idle"
    /\ msg = BlankMsg
    /\ before = NewUI
    /\ cmds = {}
    /\ reconciled = FALSE
    /\ status = "new"
    /\ brokerSubs = {}
    /\ discoveredTopics = {}
    /\ inflight = One(ConnectCmd)
    /\ inbox = EmptyBag
    /\ oldSubscribed = <<>>
    /\ newSubscribed = <<>>
    /\ script = <<>>
    /\ topicsMutex = Unlocked
    /\ goroutines = NoGoroutines

Next ==
    \/ UserEvent
    \/ TakePosted
    \/ Render
    \/ ConnectOk
    \/ ConnectHandler
    \/ ConnectFail
    \/ ConnectionLost
    \/ Reconnect
    \/ DiscoverSubscribed
    \/ DiscoverFail
    \/ DiscoverSnapshot
    \/ Deliver
    \/ SubscribeOk
    \/ SubscribeFail
    \/ UnsubscribeOk
    \/ UnsubscribeFail

Spec == Init /\ [][Next]_vars


\* Spec with the scheduling the runtime gives: View follows every Update,
\* a goroutine blocked in p.Send is eventually served, and every command and
\* handler that has started finishes, one way or the other.  Nothing is
\* assumed of the user, of the broker's publishers or of the network.
Fairness ==
    /\ WF_vars(Render)
    /\ SF_vars(TakePosted)
    /\ SF_vars(ConnectOk \/ ConnectFail)
    /\ SF_vars(ConnectHandler)
    /\ SF_vars(DiscoverSubscribed \/ DiscoverFail)
    /\ SF_vars(DiscoverSnapshot)
    /\ SF_vars(SubscribeOk \/ SubscribeFail)
    /\ SF_vars(UnsubscribeOk \/ UnsubscribeFail)

FairSpec == Spec /\ Fairness


(***************************************************************************)
(* SpecNav and SpecLog: the core alone, driven by every event the loop can *)
(* hand it, with the gateway connected and the commands Update returns     *)
(* recorded in cmds and not run.  SpecNav has a catalog long enough to     *)
(* scroll (the panes show at least seven rows) and a short stream; SpecLog *)
(* has a stream long enough to scroll and a short catalog.                 *)
(***************************************************************************)
\* A discovery snapshot of n topics, in descending order.
Snapshot(n) == [i \in 1..n |-> n + 1 - i]

InitUI ==
    /\ ui = NewUI
    /\ quitting = FALSE
    /\ pc = "idle"
    /\ msg = BlankMsg
    /\ before = NewUI
    /\ cmds = {}
    /\ reconciled = FALSE
    /\ status = "connected"
    /\ brokerSubs = {}
    /\ discoveredTopics = {}
    /\ inflight = EmptyBag
    /\ inbox = EmptyBag
    /\ oldSubscribed = <<>>
    /\ newSubscribed = <<>>
    /\ script = <<>>
    /\ topicsMutex = Unlocked
    /\ goroutines = NoGoroutines

\* The loop takes event m; only the first maxKeys topics are ever toggled
\* and the stream holds at most maxMessages messages.
CoreEvent(m, maxKeys, maxMessages) ==
    /\ Handle(m)
    /\ DOMAIN ui'.subscribedTopics \subseteq 1..maxKeys
    /\ Len(ui'.messages) <= maxMessages
    /\ UNCHANGED <<discoveredTopics, inflight, inbox, diffVars>>

NavKey == \E m \in KeyEvents : CoreEvent(m, NavKeys, NavMessages)
NavResize == \E m \in SizeEvents : CoreEvent(m, NavKeys, NavMessages)
NavSetTopics ==
    \E n \in 0..NavTopics :
        CoreEvent(MQTTTopicsDiscoveredMsg(Snapshot(n)), NavKeys, NavMessages)
NavMessage ==
    \E p \in {"on", "off"} :
        CoreEvent(MQTTMessageMsg(1, p, 0), NavKeys, NavMessages)

NextNav == NavKey \/ NavResize \/ NavSetTopics \/ NavMessage \/ Render
SpecNav == InitUI /\ [][NextNav]_vars

LogKey == \E m \in KeyEvents : CoreEvent(m, LogTopics, LogMessages)
LogResize == \E m \in SizeEvents : CoreEvent(m, LogTopics, LogMessages)
LogSetTopics ==
    \E n \in 0..LogTopics :
        CoreEvent(MQTTTopicsDiscoveredMsg(Snapshot(n)), LogTopics, LogMessages)
LogMessage == CoreEvent(MQTTMessageMsg(1, "on", 0), LogTopics, LogMessages)

NextLog == LogKey \/ LogResize \/ LogSetTopics \/ LogMessage \/ Render
SpecLog == InitUI /\ [][NextLog]_vars

(***************************************************************************)
(* SpecCatalog: the topic registry and the catalog.  The broker publishes  *)
(* on CatTopics topics in any order and any number of times under the "#"  *)
(* subscription; a snapshot of the registry, in any order a map iteration  *)
(* can give, is handed to the core at any moment.                          *)
(***************************************************************************)
InitCatalog ==
    /\ ui = NewUI
    /\ quitting = FALSE
    /\ pc = "idle"
    /\ msg = BlankMsg
    /\ before = NewUI
    /\ cmds = {}
    /\ reconciled = FALSE
    /\ status = "connected"
    /\ brokerSubs = {Wildcard}
    /\ discoveredTopics = {}
    /\ inflight = EmptyBag
    /\ inbox = EmptyBag
    /\ oldSubscribed = <<>>
    /\ newSubscribed = <<>>
    /\ script = <<>>
    /\ topicsMutex = Unlocked
    /\ goroutines = NoGoroutines

\* discoveryHandler records the topic and passes the message on.
CatObserve ==
    \E t \in 1..CatTopics :
        /\ discoveredTopics' = discoveredTopics \cup {t}
        /\ Handle(MQTTMessageMsg(t, "on", 0))
        /\ Len(ui'.messages) <= CatMessages
        /\ UNCHANGED <<inflight, inbox, diffVars>>

\* DiscoverTopicsCmd copies the registry and the loop takes its result.
CatSnapshot ==
    \E s \in Arrangements(discoveredTopics) :
        /\ Handle(MQTTTopicsDiscoveredMsg(s))
        /\ UNCHANGED <<discoveredTopics, inflight, inbox, diffVars>>

\* The user clears the stream.
CatReset ==
    /\ Handle(KeyMsg("r"))
    /\ UNCHANGED <<discoveredTopics, inflight, inbox, diffVars>>

NextCatalog == CatObserve \/ CatSnapshot \/ CatReset \/ Render
SpecCatalog == InitCatalog /\ [][NextCatalog]_vars


(***************************************************************************)
(* SpecSub: the core and the subscription set.  A short catalog, every     *)
(* topic of which the user may toggle, replaced by snapshots that list any *)
(* part of it; every event the loop can hand the core, the errors of       *)
(* failed commands included.                                               *)
(***************************************************************************)
SubKey == \E m \in KeyEvents : CoreEvent(m, SubTopics, SubMessages)
SubResize == CoreEvent(WindowSizeMsg(80, 10), SubTopics, SubMessages)
SubSetTopics ==
    \E S \in SUBSET (1..SubTopics) : \E s \in Arrangements(S) :
        CoreEvent(MQTTTopicsDiscoveredMsg(s), SubTopics, SubMessages)
SubMessage == CoreEvent(MQTTMessageMsg(1, "on", 0), SubTopics, SubMessages)
SubError ==
    \E m \in {MQTTErrorMsg(op, t) : op \in {"subscribe", "unsubscribe"},
                                     t \in 1..SubTopics}
              \cup {MQTTErrorMsg("connection lost", 0)} :
        CoreEvent(m, SubTopics, SubMessages)
SubConnected == CoreEvent(MQTTConnectedMsg, SubTopics, SubMessages)

NextSub ==
    \/ SubKey
    \/ SubResize
    \/ SubSetTopics
    \/ SubMessage
    \/ SubError
    \/ SubConnected
    \/ Render
SpecSub == InitUI /\ [][NextSub]_vars


(***************************************************************************)
(* SpecScenario: one session played from a rendered catalog of two topics: *)
(* the user presses down, enter and tab, then the broker delivers a        *)
(* message on the second topic.  It is played under every terminal height  *)
(* up to ScenarioHeights, connected and not, with either payload.          *)
(***************************************************************************)
ScenarioCatalog == <<1, 2>>
ScenarioEvents(p) ==
    <<KeyMsg("down"), KeyMsg("enter"), KeyMsg("tab"), MQTTMessageMsg(2, p, 0)>>

InitScenario ==
    /\ \E h \in 1..ScenarioHeights :
          ui = UIView([NewUI EXCEPT !.topics = ScenarioCatalog,
                                    !.width = 80, !.height = h])
    /\ quitting = FALSE
    /\ pc = "idle"
    /\ msg = BlankMsg
    /\ before = NewUI
    /\ cmds = {}
    /\ reconciled = FALSE
    /\ status \in {"new", "connected"}
    /\ brokerSubs = {}
    /\ discoveredTopics = {}
    /\ inflight = EmptyBag
    /\ inbox = EmptyBag
    /\ oldSubscribed = <<>>
    /\ newSubscribed = <<>>
    /\ \E p \in {"on", "off"} : script = ScenarioEvents(p)
    /\ topicsMutex = Unlocked
    /\ goroutines = NoGoroutines

\* The loop takes the next event of the scenario.
ScenarioStep ==
    /\ script # <<>>
    /\ Handle(Head(script))
    /\ script' = Tail(script)
    /\ UNCHANGED <<discoveredTopics, inflight, inbox, oldSubscribed, newSubscribed,
                   topicsMutex, goroutines>>

NextScenario == ScenarioStep \/ Render
SpecScenario == InitScenario /\ [][NextScenario]_vars


(***************************************************************************)
(* SpecStream: the core with a stream of messages that differ and a        *)
(* catalog of more than one topic, both short, under every event the loop  *)
(* can hand it and every terminal size, the unknown size included.         *)
(***************************************************************************)
StreamKey == \E m \in KeyEvents : CoreEvent(m, StreamTopics, StreamMessages)
StreamResize ==
    \E m \in {WindowSizeMsg(0, 0), WindowSizeMsg(80, 10)} :
        CoreEvent(m, StreamTopics, StreamMessages)
StreamSetTopics ==
    \E n \in 0..StreamTopics :
        CoreEvent(MQTTTopicsDiscoveredMsg(Snapshot(n)), StreamTopics, StreamMessages)
StreamMessage ==
    \E p \in {"on", "off"} :
        CoreEvent(MQTTMessageMsg(1, p, 0), StreamTopics, StreamMessages)
StreamError ==
    CoreEvent(MQTTErrorMsg("connection lost", 0), StreamTopics, StreamMessages)
StreamConnected == CoreEvent(MQTTConnectedMsg, StreamTopics, StreamMessages)

NextStream ==
    \/ StreamKey
    \/ StreamResize
    \/ StreamSetTopics
    \/ StreamMessage
    \/ StreamError
    \/ StreamConnected
    \/ Render
SpecStream == InitUI /\ [][NextStream]_vars


(***************************************************************************)
(* SpecRegistry: the registry of discovered topics, statement by           *)
(* statement.  The client calls discoveryHandler for one message at a      *)
(* time; up to RegSnapshots DiscoverTopicsCmd run beside it.  Each         *)
(* statement that touches the mutex or the map is a step, so that every    *)
(* interleaving the mutex allows is taken.                                 *)
(***************************************************************************)
InitRegistry ==
    /\ ui = NewUI
    /\ quitting = FALSE
    /\ pc = "idle"
    /\ msg = BlankMsg
    /\ before = NewUI
    /\ cmds = {}
    /\ reconciled = FALSE
    /\ status = "connected"
    /\ brokerSubs = {Wildcard}
    /\ discoveredTopics = {}
    /\ inflight = EmptyBag
    /\ inbox = EmptyBag
    /\ oldSubscribed = <<>>
    /\ newSubscribed = <<>>
    /\ script = <<>>
    /\ topicsMutex = Unlocked
    /\ goroutines = [NoGoroutines EXCEPT !.snap = [i \in 1..RegSnapshots |-> SleepingCmd]]

registryFrame == <<coreVars, status, brokerSubs, inflight, inbox,
                   oldSubscribed, newSubscribed, script>>

\* The client calls discoveryHandler with a message on topic t.
HandlerCalled ==
    \E t \in 1..RegTopics :
        /\ pc = "idle"
        /\ goroutines.handler.pc = "idle"
        /\ goroutines' = [goroutines EXCEPT !.handler = [pc |-> "lock", topic |-> t]]
        /\ UNCHANGED <<registryFrame, discoveredTopics, topicsMutex>>

\* m.topicsMutex.Lock()
HandlerLock ==
    /\ pc = "idle"
    /\ goroutines.handler.pc = "lock"
    /\ CanLock(topicsMutex)
    /\ topicsMutex' = [topicsMutex EXCEPT !.writer = TRUE]
    /\ goroutines' = [goroutines EXCEPT !.handler.pc = "write"]
    /\ UNCHANGED <<registryFrame, discoveredTopics>>

\* m.discoveredTopics[topic] = true
HandlerWrite ==
    /\ pc = "idle"
    /\ goroutines.handler.pc = "write"
    /\ discoveredTopics' = discoveredTopics \cup {goroutines.handler.topic}
    /\ goroutines' = [goroutines EXCEPT !.handler.pc = "unlock"]
    /\ UNCHANGED <<registryFrame, topicsMutex>>

\* m.topicsMutex.Unlock()
HandlerUnlock ==
    /\ pc = "idle"
    /\ goroutines.handler.pc = "unlock"
    /\ topicsMutex' = [topicsMutex EXCEPT !.writer = FALSE]
    /\ goroutines' = [goroutines EXCEPT !.handler.pc = "send"]
    /\ UNCHANGED <<registryFrame, discoveredTopics>>

\* m.messageHandler(client, msg): the message is sent to the loop.
HandlerSend ==
    /\ goroutines.handler.pc = "send"
    /\ Handle(MQTTMessageMsg(goroutines.handler.topic, "on", 0))
    /\ Len(ui'.messages) <= RegMessages
    /\ goroutines' = [goroutines EXCEPT !.handler = IdleHandler]
    /\ UNCHANGED <<discoveredTopics, inflight, inbox, oldSubscribed,
                   newSubscribed, script, topicsMutex>>

\* The stream is cleared by the user.
RegistryReset ==
    /\ Handle(KeyMsg("r"))
    /\ UNCHANGED <<discoveredTopics, inflight, inbox, diffVars>>

\* DiscoverTopicsCmd wakes up: m.topicsMutex.RLock(), then
\* topics := make([]string, 0, len(m.discoveredTopics)).
SnapshotRLock ==
    \E i \in 1..RegSnapshots :
        /\ pc = "idle"
        /\ goroutines.snap[i].pc = "sleep"
        /\ CanRLock(topicsMutex)
        /\ topicsMutex' = [topicsMutex EXCEPT !.readers = @ + 1]
        /\ goroutines' = [goroutines EXCEPT !.snap[i] =
                             [pc |-> "range", topics |-> <<>>, at |-> discoveredTopics]]
        /\ UNCHANGED <<registryFrame, discoveredTopics>>

\* One turn of for topic := range m.discoveredTopics: the iteration gives a
\* key of the map it has not given yet, in no particular order.
SnapshotRange ==
    \E i \in 1..RegSnapshots :
        \E t \in discoveredTopics \ Range(goroutines.snap[i].topics) :
            /\ pc = "idle"
            /\ goroutines.snap[i].pc = "range"
            /\ goroutines' = [goroutines EXCEPT !.snap[i].topics = Append(@, t)]
            /\ UNCHANGED <<registryFrame, discoveredTopics, topicsMutex>>

\* The loop ends and m.topicsMutex.RUnlock() runs.  The iteration has given
\* every key that was in the map when it began; a key written into the map
\* while it ran may have been given or not.
SnapshotRUnlock ==
    \E i \in 1..RegSnapshots :
        /\ pc = "idle"
        /\ goroutines.snap[i].pc = "range"
        /\ goroutines.snap[i].at \subseteq Range(goroutines.snap[i].topics)
        /\ topicsMutex' = [topicsMutex EXCEPT !.readers = @ - 1]
        /\ goroutines' = [goroutines EXCEPT !.snap[i].pc = "return"]
        /\ UNCHANGED <<registryFrame, discoveredTopics>>

\* return MQTTTopicsDiscoveredMsg{Topics: topics}: the loop takes the event.
\* The command of the next connection sleeps.
SnapshotReturn ==
    \E i \in 1..RegSnapshots :
        /\ goroutines.snap[i].pc = "return"
        /\ Handle(MQTTTopicsDiscoveredMsg(goroutines.snap[i].topics))
        /\ goroutines' = [goroutines EXCEPT
                             !.snap[i] = SleepingCmd,
                             !.last = Range(goroutines.snap[i].topics)]
        /\ UNCHANGED <<discoveredTopics, inflight, inbox, oldSubscribed,
                       newSubscribed, script, topicsMutex>>

NextRegistry ==
    \/ HandlerCalled
    \/ HandlerLock
    \/ HandlerWrite
    \/ HandlerUnlock
    \/ HandlerSend
    \/ RegistryReset
    \/ SnapshotRLock
    \/ SnapshotRange
    \/ SnapshotRUnlock
    \/ SnapshotReturn
    \/ Render
SpecRegistry == InitRegistry /\ [][NextRegistry]_vars


(***************************************************************************)
(* SpecDiff: handleSubscriptionChanges alone, applied to every pair of     *)
(* slices GetSubscribedTopics can return over DiffTopics topics.           *)
(***************************************************************************)
\* The slices without repetition over 1..n, in every order.
Slices(n) ==
    UNION {Arrangements(S) : S \in SUBSET (1..n)}

InitDiff ==
    /\ ui = NewUI
    /\ quitting = FALSE
    /\ pc = "idle"
    /\ msg = BlankMsg
    /\ before = NewUI
    /\ cmds = {}
    /\ reconciled = FALSE
    /\ status = "connected"
    /\ brokerSubs = {}
    /\ discoveredTopics = {}
    /\ inflight = EmptyBag
    /\ inbox = EmptyBag
    /\ oldSubscribed \in Slices(DiffTopics)
    /\ newSubscribed \in Slices(DiffTopics)
    /\ script = <<>>
    /\ topicsMutex = Unlocked
    /\ goroutines = NoGoroutines

ApplyDiff ==
    /\ pc = "idle"
    /\ cmds' = handleSubscriptionChanges(oldSubscribed, newSubscribed)
    /\ pc' = "done"
    /\ UNCHANGED <<ui, quitting, msg, before, reconciled, gatewayVars, diffVars>>

SpecDiff == InitDiff /\ [][ApplyDiff]_vars


(***************************************************************************)
(* Properties.                                                             *)
(*                                                                         *)
(* In a state with pc = "view", msg is the event Update has just handled,  *)
(* before is the UI it started from, ui the UI it left, cmds the commands  *)
(* it returned; Rendered is the UI the call of View that follows leaves.   *)
(***************************************************************************)
Rendered == AppView(ui, quitting)
Handled(type) == pc = "view" /\ msg.type = type
Desired(u, t) == MapGet(u.subscribedTopics, t)

\* C1: retry on failure.  When the loop handles the MQTTErrorMsg of a failed
\* subscribe(A) while the gateway is connected and A is still desired, the
\* reconciliation pass of that event issues subscribe(A) again.
C1_RetryOnFailure ==
    (/\ Handled("MQTTErrorMsg")
     /\ msg.err.op = "subscribe"
     /\ reconciled
     /\ Desired(ui, msg.err.topic))
    => subscribeToTopicCmd(msg.err.topic) \in cmds

\* C2: reconnect reconciliation.  When the loop handles MQTTConnectedMsg
\* with the gateway connected, it issues subscribe(t) for every topic t
\* whose desired flag is true.
C2_ReconnectReconciles ==
    (Handled("MQTTConnectedMsg") /\ reconciled)
    => \A t \in SubscribedSet(ui) : subscribeToTopicCmd(t) \in cmds

\* C3: reconciliation minimality.  For every pair of slices (applied,
\* desired) handleSubscriptionChanges returns a subscribe command for
\* exactly the topics of desired that are not in applied, an unsubscribe
\* command for exactly the topics of applied that are not in desired, and
\* nothing else.
C3_DiffMinimal ==
    pc = "done" =>
        LET applied == Range(oldSubscribed)
            desired == Range(newSubscribed)
        IN  /\ {c.topic : c \in {x \in cmds : x.op = "subscribe"}} = desired \ applied
            /\ {c.topic : c \in {x \in cmds : x.op = "unsubscribe"}} = applied \ desired
            /\ \A c \in cmds : IsSubscriptionCmd(c)
            /\ \A t \in (applied \cap desired) \cup ((1..DiffTopics) \ (applied \cup desired)) :
                   \A c \in cmds : c.topic # t

\* C3 witness: applied = {B, C}, desired = {A, C} gives subscribe(A) and
\* unsubscribe(B).
C3_Witness ==
    /\ pc = "done"
    /\ Range(oldSubscribed) = {2, 3}
    /\ Range(newSubscribed) = {1, 3}
    /\ cmds = {subscribeToTopicCmd(1), unsubscribeFromTopicCmd(2)}

\* C4: no event handled while the gateway is not connected issues a
\* subscribe or unsubscribe command; a toggle handled in that state still
\* flips the desired flag of the selected topic.
C4_NoActionWhileDisconnected ==
    (pc = "view" /\ status # "connected") =>
        /\ \A c \in cmds : ~IsSubscriptionCmd(c)
        /\ (/\ msg.type = "KeyMsg"
            /\ msg.key \in {"enter", " "}
            /\ before.activePane = TopicsPane
            /\ Len(before.topics) > 0)
           => Desired(ui, TopicAt(before, before.selectedTopic))
                = ~Desired(before, TopicAt(before, before.selectedTopic))

\* C4 witness: the connection is lost and the user switches a topic on.
C4_Witness ==
    /\ pc = "view"
    /\ status = "lost"
    /\ msg = KeyMsg("enter")
    /\ Desired(ui, 1)
    /\ ~Desired(before, 1)
    /\ cmds = {}


\* Whether index i (from 0) of the message stream is shown by UI u.
MessageShown(u, i) == i \in MessageWindow(u)
LastIndex(u) == Len(u.messages) - 1

\* C5: auto-follow, advance.  When a message is appended while the Messages
\* pane has focus, or while the cursor is within the last FollowMargin
\* positions of the stream as it was before the append, the cursor does not
\* move back and the new message is inside the visible window, both when
\* Update returns and after the render that follows.
C5_AutoFollowAdvance ==
    (/\ Handled("MQTTMessageMsg")
     /\ LaidOut(before)
     /\ \/ before.activePane = MessagesPane
        \/ before.messageScroll >= Len(before.messages) - FollowMargin)
    => /\ Len(ui.messages) = Len(before.messages) + 1
       /\ ui.messageScroll >= before.messageScroll
       /\ MessageShown(ui, LastIndex(ui))
       /\ MessageShown(Rendered, LastIndex(Rendered))

\* C5 witness: the Messages pane has focus, the stream fills the pane, and
\* the append moves the cursor forward.
C5_Witness ==
    /\ Handled("MQTTMessageMsg")
    /\ LaidOut(before)
    /\ before.activePane = MessagesPane
    /\ Len(before.messages) >= VisibleLines(before)
    /\ ui.messageScroll > before.messageScroll
    /\ Rendered.messageScroll > before.messageScroll

\* C6: auto-follow, hold.  When a message is appended while the Topics pane
\* has focus and the cursor is more than FollowMargin positions behind the
\* previous tail, the cursor keeps the value it had, when Update returns
\* and after the render that follows.
C6_AutoFollowHold ==
    (/\ Handled("MQTTMessageMsg")
     /\ before.activePane = TopicsPane
     /\ LastIndex(before) - before.messageScroll > FollowMargin)
    => /\ ui.messageScroll = before.messageScroll
       /\ Rendered.messageScroll = before.messageScroll

\* C6 witness: a laid-out view, Topics pane focused, cursor at the top of a
\* stream of at least seven messages, and a message has been appended.
C6_Witness ==
    /\ Handled("MQTTMessageMsg")
    /\ LaidOut(before)
    /\ before.activePane = TopicsPane
    /\ LastIndex(before) - before.messageScroll > FollowMargin
    /\ Len(ui.messages) = Len(before.messages) + 1

\* The clamp of the message cursor for the capacity the layout gives.
MessageCursorClamped(u) ==
    /\ 0 <= u.messageScroll
    /\ u.messageScroll <= Max(Len(u.messages) - VisibleLines(u), 0)

\* C7 as stated: in every state in which the panes are laid out the message
\* cursor is within [0, max(0, length - capacity)].
C7_AlwaysClamped == LaidOut(ui) => MessageCursorClamped(ui)

\* C7, amended: the message cursor is within [0, max(0, length - capacity)]
\* whenever View has laid the panes out since the last event; when Update
\* returns (after AddMessage, MoveDown, ResetMessages) and while the
\* terminal size is unknown it is within [0, max(0, length - 1)], and the
\* window the renderer shows never extends past the end of the stream.
C7_ClampedAfterRender ==
    /\ (pc = "idle" /\ LaidOut(ui)) => MessageCursorClamped(ui)
    /\ (pc = "view" /\ LaidOut(ui) /\ ~quitting) => MessageCursorClamped(Rendered)
    /\ 0 <= ui.messageScroll
    /\ ui.messageScroll <= Max(Len(ui.messages) - 1, 0)
    /\ \A i \in MessageWindow(ui) : 0 <= i /\ i < Len(ui.messages)

\* C7 witness: AddMessage has left the cursor on the last message, beyond
\* the clamp, and the render is about to pull it back.
C7_Witness ==
    /\ Handled("MQTTMessageMsg")
    /\ LaidOut(ui)
    /\ Len(ui.messages) > VisibleLines(ui)
    /\ ui.messageScroll = Len(ui.messages) - 1
    /\ Rendered.messageScroll = Len(ui.messages) - VisibleLines(ui)

\* C8: topic scroll clamp.  With the panes laid out for V rows and a catalog
\* of N topics, the topic cursor is within [0, max(0, N - V)] after every
\* key press and every SetTopics, when Update returns and after the render
\* (a resize changes V, and the render that follows it restores the clamp).
C8_TopicScrollClamped ==
    (LaidOut(ui) /\ ~Handled("WindowSizeMsg"))
    => /\ 0 <= ui.topicScroll
       /\ ui.topicScroll <= Max(Len(ui.topics) - VisibleLines(ui), 0)

\* C8 witness: a catalog longer than the pane, scrolled to its last page.
C8_Witness ==
    /\ pc = "idle"
    /\ LaidOut(ui)
    /\ Len(ui.topics) > VisibleLines(ui)
    /\ ui.topicScroll = Len(ui.topics) - VisibleLines(ui)
    /\ ui.topicScroll > 0

IsMove(m) == m.type = "KeyMsg" /\ m.key \in {"up", "k", "down", "j"}

\* C9: selection visibility.  With a non-empty catalog and the panes laid
\* out, the render after a MoveUp or MoveDown in the Topics pane leaves
\* cursor <= selection < cursor + visibleLines: the cursor becomes the
\* selection if the selection was above the window and selection -
\* visibleLines + 1 if it was at or beyond the window's end; the render
\* does not change the selection.  The same holds whenever the loop is idle.
C9_SelectionVisible ==
    /\ (/\ pc = "view"
        /\ IsMove(msg)
        /\ before.activePane = TopicsPane
        /\ Len(ui.topics) > 0
        /\ LaidOut(ui))
       => /\ Rendered.topicScroll <= Rendered.selectedTopic
          /\ Rendered.selectedTopic < Rendered.topicScroll + VisibleLines(ui)
          /\ Rendered.selectedTopic = ui.selectedTopic
          /\ ui.selectedTopic < ui.topicScroll
                => Rendered.topicScroll = ui.selectedTopic
          /\ ui.selectedTopic >= ui.topicScroll + VisibleLines(ui)
                => Rendered.topicScroll = ui.selectedTopic - VisibleLines(ui) + 1
    /\ (pc = "idle" /\ Len(ui.topics) > 0 /\ LaidOut(ui))
       => /\ ui.topicScroll <= ui.selectedTopic
          /\ ui.selectedTopic < ui.topicScroll + VisibleLines(ui)
    /\ pc = "view" => Rendered.selectedTopic = ui.selectedTopic

\* C9 witness: MoveDown has taken the selection past the last visible row.
C9_Witness ==
    /\ pc = "view"
    /\ msg = KeyMsg("down")
    /\ before.activePane = TopicsPane
    /\ LaidOut(ui)
    /\ ui.selectedTopic = ui.topicScroll + VisibleLines(ui)
    /\ Rendered.topicScroll = ui.topicScroll + 1

\* C10: the selection index is within [0, N - 1] for a catalog of N > 0
\* topics and is 0 for an empty catalog, in every state; so the topic a
\* toggle reads at the selection index is a topic of the catalog.
C10_SelectionInCatalog ==
    /\ IF Len(ui.topics) = 0 THEN ui.selectedTopic = 0
       ELSE 0 <= ui.selectedTopic /\ ui.selectedTopic <= Len(ui.topics) - 1
    /\ Len(ui.topics) > 0 => TopicAt(ui, ui.selectedTopic) \in Range(ui.topics)

\* C10 witness: SetTopics has replaced the catalog by one shorter than the
\* old selection index, and the selection is on the new last topic.
C10_Witness ==
    /\ Handled("MQTTTopicsDiscoveredMsg")
    /\ Len(ui.topics) > 0
    /\ before.selectedTopic > Len(ui.topics) - 1
    /\ ui.selectedTopic = Len(ui.topics) - 1


\* The topics the core's catalog lists.
Listed(u) == Range(u.topics)

\* C12: catalog monotonicity.  Whatever event the loop handles, every topic
\* the catalog listed before the event is still listed after it.
C12_CatalogMonotone ==
    pc = "view" => Listed(before) \subseteq Listed(ui)


\* C11: discovery completeness.  Every topic discoveryHandler has recorded is
\* eventually listed in the core's catalog, unless the session ends or the
\* connection drops first.
C11_ObservedEventuallyListed ==
    \A t \in Topics :
        (t \in discoveredTopics) ~> (t \in Listed(ui) \/ quitting \/ ~IsConnected)


IsActionError(m) ==
    m.type = "MQTTErrorMsg" /\ m.err.op \in {"subscribe", "unsubscribe"}

\* The enter and space keys.
ToggleKeys == {"enter", " "}
IsToggle(m) == m.type = "KeyMsg" /\ m.key \in ToggleKeys

\* C14: a failed subscribe or unsubscribe.  Handling its MQTTErrorMsg changes
\* the error text and nothing else of the UI (flags, catalog, stream,
\* cursors, selection, focus), through the render that follows too; Update
\* returns no command (nothing is rolled back), and the next toggle gets the
\* same command as it would have got without the failure.
C14_ErrorChangesOnlyErrorText ==
    (pc = "view" /\ IsActionError(msg)) =>
        /\ ui = [before EXCEPT !.error = FormatError(msg.err)]
        /\ Rendered = ui
        /\ cmds = {}
        /\ \A k \in ToggleKeys :
              AppUpdate(Rendered, IsConnected, KeyMsg(k)).cmds
                  = AppUpdate(before, IsConnected, KeyMsg(k)).cmds

\* A failed subscribe for a topic whose flag is set, with another topic
\* selected whose toggle is still answered with a subscribe command.
C14_Witness ==
    /\ pc = "view" /\ IsActionError(msg)
    /\ msg.err.op = "subscribe"
    /\ Desired(ui, msg.err.topic)
    /\ ui.error = "MQTT Error: failed to subscribe to t1"
    /\ before.error # ui.error
    /\ AppUpdate(Rendered, IsConnected, KeyMsg("enter")).cmds
           = {subscribeToTopicCmd(2)}


\* C15: the error text is cleared by a success.  When the UI shows the
\* error of a lost connection and the loop handles MQTTConnectedMsg with the
\* client connected again, the error field is empty afterwards.
C15_ErrorClearedOnSuccess ==
    (/\ Handled("MQTTConnectedMsg")
     /\ reconciled
     /\ before.error = FormatError(MQTTErrorMsg("connection lost", 0).err))
    => ui.error = ""

\* C16: messages of subscribed topics only.  Every message the loop appends
\* to the stream is on a topic whose desired flag is set when it arrives.
C16_OnlySubscribedMessages ==
    Handled("MQTTMessageMsg") => Desired(before, msg.topic)


\* C17: the end-to-end scenario.  From catalog [a/1, b/2], nothing desired,
\* focus on the Topics pane and selection 0, once down, enter, tab and a
\* message on b/2 have been handled: the selection is 1, the desired set is
\* {b/2}, the focus is on the Messages pane, the stream holds that message
\* and no other, and the message is inside the visible window, when Update
\* returns and after the render.
C17_Scenario ==
    script = <<>> =>
        /\ ui.selectedTopic = 1
        /\ SubscribedSet(ui) = {2}
        /\ ui.activePane = MessagesPane
        /\ Len(ui.messages) = 1
        /\ ui.messages[1].Topic = 2
        /\ ui.messages[1].Payload \in {"on", "off"}
        /\ MessageShown(ui, 0)
        /\ MessageShown(Rendered, 0)

\* The scenario has been played to its end and the view rendered.
C17_Witness ==
    /\ script = <<>>
    /\ pc = "idle"
    /\ Len(ui.messages) = 1
    /\ ui.height = 24
    /\ status = "connected"


\* The topics of SpecSub, the only ones that ever have a flag there.
SubAll == 1..SubTopics
SameFlags(u, v) == \A t \in SubAll : Desired(u, t) = Desired(v, t)

\* C18: the subscription set changes under the toggle only.  Every event
\* that is not an enter or space key leaves every desired flag as it was,
\* when Update returns and after the render; a snapshot that no longer lists
\* a topic keeps the topic's flag.
C18_OnlyToggleMutates ==
    (pc = "view" /\ ~IsToggle(msg)) =>
        /\ DOMAIN ui.subscribedTopics \subseteq SubAll
        /\ SameFlags(ui, before)
        /\ SameFlags(Rendered, before)

\* A snapshot has just dropped a topic whose flag is set from the catalog.
C18_Witness ==
    /\ Handled("MQTTTopicsDiscoveredMsg")
    /\ \E t \in SubAll :
          /\ t \in Listed(before)
          /\ t \notin Listed(ui)
          /\ Desired(before, t)
          /\ Desired(ui, t)

\* C19: the toggle.  With the focus on the Topics pane and a catalog that
\* is not empty, an enter or space key flips the flag of the topic at the
\* selection and the flag of no other topic, and leaves the selection where
\* it was; the same key once more, after the render, restores every flag.
C19_ToggleInvolution ==
    (/\ pc = "view" /\ IsToggle(msg)
     /\ before.activePane = TopicsPane
     /\ Len(before.topics) > 0)
    => LET sel == TopicAt(before, before.selectedTopic)
           twice == AppUpdate(Rendered, IsConnected, msg).ui
       IN  /\ Desired(ui, sel) = ~Desired(before, sel)
           /\ \A t \in SubAll \ {sel} : Desired(ui, t) = Desired(before, t)
           /\ Rendered.selectedTopic = before.selectedTopic
           /\ SameFlags(twice, before)

\* The toggle has just cleared the flag of the selected topic while the
\* other topic's flag is set.
C19_Witness ==
    /\ pc = "view" /\ IsToggle(msg)
    /\ before.activePane = TopicsPane
    /\ Len(before.topics) = 2
    /\ before.selectedTopic = 1
    /\ Desired(before, 2) /\ ~Desired(ui, 2)
    /\ Desired(before, 1) /\ Desired(ui, 1)

\* C20: the toggle without effect.  With the focus on the Messages pane, or
\* with an empty catalog, an enter or space key leaves the UI as it was and
\* Update, though it runs the diff, returns no command.
C20_ToggleNeedsFocusAndCatalog ==
    (/\ pc = "view" /\ IsToggle(msg)
     /\ (before.activePane = MessagesPane \/ Len(before.topics) = 0))
    => /\ ui = before
       /\ SameFlags(Rendered, before)
       /\ reconciled
       /\ cmds = {}

\* Enter pressed with the focus on the Messages pane and a topic selected.
C20_Witness ==
    /\ pc = "view" /\ IsToggle(msg)
    /\ before.activePane = MessagesPane
    /\ Len(before.topics) > 0
    /\ reconciled


\* C21: SetTopics.  When Update returns from a snapshot, the selection is
\* the old index if that is below the new length, the new last index if the
\* catalog shrank below it, 0 if the catalog is empty; the topic scroll
\* position is 0.
C21_SetTopicsReclamps ==
    Handled("MQTTTopicsDiscoveredMsg") =>
        LET old == before.selectedTopic
            n == Len(ui.topics)
        IN  /\ n = Len(msg.topics)
            /\ ui.selectedTopic = IF n = 0 THEN 0
                                  ELSE IF old < n THEN old
                                  ELSE n - 1
            /\ ui.topicScroll = 0

\* A snapshot has shrunk a scrolled catalog below the selection.
C21_Witness ==
    /\ Handled("MQTTTopicsDiscoveredMsg")
    /\ before.topicScroll > 0
    /\ Len(ui.topics) > 1
    /\ before.selectedTopic >= Len(ui.topics)
    /\ ui.selectedTopic = Len(ui.topics) - 1


\* The key of ResetMessages, of ToggleFocus, of MoveUp and of MoveDown.
IsKey(m, keys) == m.type = "KeyMsg" /\ m.key \in keys

\* C22: ResetMessages.  Whatever the state and the focus, when Update returns
\* from the r key the stream is empty and the message cursor 0, and the rest
\* of the UI (catalog, selection, topic scroll, flags, focus) is as it was;
\* the render that follows changes none of it.
C22_ResetMessages ==
    (pc = "view" /\ IsKey(msg, {"r"})) =>
        /\ ui = [before EXCEPT !.messages = <<>>, !.messageScroll = 0]
        /\ Rendered = ui

\* A stream of three messages with the cursor off 0, cleared with the focus
\* on the Messages pane.
C22_Witness ==
    /\ pc = "view" /\ IsKey(msg, {"r"})
    /\ Len(before.messages) = 3
    /\ before.messageScroll > 0
    /\ before.activePane = MessagesPane
    /\ Len(before.topics) = 2

\* C23: the stream is append-only between resets.  A message event leaves the
\* stream as it was with the new message added at the tail; every other event
\* but the r key leaves the stream as it was; so does every render.
C23_AppendOnly ==
    pc = "view" =>
        /\ Handled("MQTTMessageMsg") =>
              ui.messages = Append(before.messages,
                                   [Topic |-> msg.topic, Payload |-> msg.payload,
                                    Timestamp |-> msg.ts])
        /\ (~Handled("MQTTMessageMsg") /\ ~IsKey(msg, {"r"})) =>
              ui.messages = before.messages
        /\ Rendered.messages = ui.messages

\* A message appended behind two messages that differ from it and from each
\* other's neighbour.
C23_Witness ==
    /\ Handled("MQTTMessageMsg")
    /\ Len(ui.messages) = 3
    /\ ui.messages[1].Payload = "on"
    /\ ui.messages[2].Payload = "off"
    /\ ui.messages[3].Payload = "on"

\* C24: MoveUp and MoveDown.  With the focus on the Messages pane the up
\* keys take one off the message cursor unless it is 0, the down keys add one
\* unless it is the last index (or the stream is empty), and the selection
\* stays; with the focus on the Topics pane the message cursor stays and
\* nothing but the selection changes.
C24_MoveByFocus ==
    (pc = "view" /\ IsKey(msg, {"up", "k", "down", "j"})) =>
        LET c == before.messageScroll
            n == Len(before.messages)
            up == msg.key \in {"up", "k"}
        IN  IF before.activePane = MessagesPane
            THEN /\ ui.messageScroll =
                       IF up THEN (IF c > 0 THEN c - 1 ELSE c)
                       ELSE (IF c < n - 1 THEN c + 1 ELSE c)
                 /\ ui = [before EXCEPT !.messageScroll = ui.messageScroll]
                 /\ (c \in 0..Max(n - 1, 0)) => (ui.messageScroll \in 0..Max(n - 1, 0))
            ELSE ui = [before EXCEPT !.selectedTopic = ui.selectedTopic]

\* The cursor has moved down in the Messages pane while the second topic is
\* selected.
C24_Witness ==
    /\ pc = "view" /\ IsKey(msg, {"down", "j"})
    /\ before.activePane = MessagesPane
    /\ before.selectedTopic = 1
    /\ before.messageScroll = 1
    /\ ui.messageScroll = 2

\* C25: ToggleFocus.  The tab key swaps the focus and changes nothing else,
\* neither in Update nor in the render; the tab key once more gives back
\* the state it started from.
C25_ToggleFocusInvolution ==
    (pc = "view" /\ IsKey(msg, {"tab"})) =>
        /\ ui.activePane # before.activePane
        /\ ui.activePane \in {TopicsPane, MessagesPane}
        /\ ui = [before EXCEPT !.activePane = ui.activePane]
        /\ Rendered = ui
        /\ cmds = {}
        /\ AppView(AppUpdate(Rendered, IsConnected, msg).ui, FALSE) = before

\* Tab pressed with the focus on the Messages pane and the cursor off 0.
C25_Witness ==
    /\ pc = "view" /\ IsKey(msg, {"tab"})
    /\ before.activePane = MessagesPane
    /\ before.messageScroll > 0
    /\ before.selectedTopic > 0


\* The keys that quit.
QuitKeys == {"ctrl+c", "q"}

\* C26: quit.  In every state in which the loop waits for an event, Update
\* answers either quit key with tea.Quit, no command and the UI untouched;
\* when it has done so the client is disconnected, and the UI (catalog,
\* flags, stream, cursors, selection, focus) is as it was, through the last
\* render too.
C26_QuitOnlyDisconnects ==
    /\ pc = "idle" =>
          \A k \in QuitKeys :
              LET r == AppUpdate(ui, IsConnected, KeyMsg(k))
              IN  r.quit /\ r.cmds = {} /\ r.ui = ui
    /\ (pc = "view" /\ IsKey(msg, QuitKeys)) =>
          /\ quitting
          /\ status = "closed"
          /\ cmds = {}
          /\ ui = before
          /\ Rendered = ui

\* Quit with the focus on the Messages pane, a topic desired, a message in
\* the stream and a command still running.
C26_Witness ==
    /\ pc = "view" /\ IsKey(msg, QuitKeys)
    /\ before.activePane = MessagesPane
    /\ SubscribedSet(before) # {}
    /\ Len(before.messages) > 0
    /\ inflight # EmptyBag


\* The filters of single topics the broker holds for the client.
GatewaySubscribed == brokerSubs \ {Wildcard}

\* No failure has been reported to the loop: ui.error is written by the
\* MQTTErrorMsg case alone and never cleared.
NoFailureSeen == ui.error = "" /\ ~BagIn(PostedLost, inbox)

\* C28: convergence.  With the client connected, no failure of a command or
\* of the connection so far, no command in flight and no event waiting, the
\* topics subscribed at the broker are the topics whose desired flag is set.
C28_Converges ==
    (/\ pc = "idle"
     /\ IsConnected
     /\ NoFailureSeen
     /\ inflight = EmptyBag
     /\ inbox = EmptyBag)
    => GatewaySubscribed = SubscribedSet(ui)

\* C29: tail-following through the render.  With the focus on the Topics
\* pane and the panes laid out, if the newest message was inside the visible
\* window before a message arrived, the new message is inside the visible
\* window after Update and the render that follows.
C29_TailFollowingSurvivesRender ==
    (/\ Handled("MQTTMessageMsg")
     /\ before.activePane = TopicsPane
     /\ LaidOut(before)
     /\ Len(before.messages) > 0
     /\ MessageShown(before, LastIndex(before)))
    => MessageShown(Rendered, LastIndex(Rendered))

\* The discovery commands running: started, or sleeping before the snapshot.
DiscoveryRuns ==
    CopiesIn(DiscoverTopicsCmd, inflight) + CopiesIn(CollectCmd, inflight)

\* C30: one discovery run for one connection.  As long as no failure has
\* been reported (so the client has connected once at most), at most one
\* discovery command is running.
C30_OneDiscoveryPerConnection ==
    NoFailureSeen => DiscoveryRuns <= 1


\* The DiscoverTopicsCmd that stand at the given place of their code.
SnapshotsAt(place) ==
    {i \in DOMAIN goroutines.snap : goroutines.snap[i].pc = place}

\* C27: the registry is free of races.  discoveryHandler writes the map
\* holding the write lock, with no reader inside; DiscoverTopicsCmd reads it
\* holding a read lock, with no writer inside, and the map does not change
\* while it reads; the list it returns holds every topic of the map as it was
\* at the moment of the read lock, each once; the list the core was handed
\* last is the catalog, whatever discoveryHandler has written since.
C27_RegistryRaceFree ==
    /\ goroutines.handler.pc \in {"write", "unlock"} =>
          topicsMutex.writer /\ topicsMutex.readers = 0
    /\ topicsMutex.readers = Cardinality(SnapshotsAt("range"))
    /\ \A i \in SnapshotsAt("range") :
          /\ ~topicsMutex.writer
          /\ discoveredTopics = goroutines.snap[i].at
    /\ \A i \in SnapshotsAt("return") :
          /\ Range(goroutines.snap[i].topics) = goroutines.snap[i].at
          /\ Len(goroutines.snap[i].topics) = Cardinality(goroutines.snap[i].at)
    /\ Handled("MQTTTopicsDiscoveredMsg") => Range(msg.topics) = goroutines.last
    /\ Listed(ui) = goroutines.last

\* The core is handed a list that lacks a topic discoveryHandler wrote to
\* the registry after the list was copied, while discoveryHandler, called
\* again, is about to take the lock.
C27_Witness ==
    /\ Handled("MQTTTopicsDiscoveredMsg")
    /\ Range(msg.topics) = {1}
    /\ discoveredTopics = {1, 2}
    /\ goroutines.handler.pc = "lock"


\* The subscribe and unsubscribe commands among those Update returned.
SubscriptionCmds == {c \in cmds : IsSubscriptionCmd(c)}

\* C31: one action an event at most, and for the toggle alone.  Whatever
\* event Update has handled, it returned at most one subscribe or unsubscribe
\* command; if it returned one, the event was an enter or space key and the
\* command is for the topic at the selection, a subscribe if the key set the
\* flag and an unsubscribe if it cleared it.
C31_OnlyToggleIssuesOneAction ==
    pc = "view" =>
        /\ Cardinality(SubscriptionCmds) <= 1
        /\ ~IsToggle(msg) => SubscriptionCmds = {}
        /\ \A c \in SubscriptionCmds :
              /\ before.activePane = TopicsPane
              /\ Len(before.topics) > 0
              /\ c.topic = TopicAt(before, before.selectedTopic)
              /\ c.op = IF Desired(ui, c.topic) THEN "subscribe" ELSE "unsubscribe"

\* The toggle has cleared the flag of the first topic while the second is
\* desired: one unsubscribe, nothing for the second topic.
C31_Witness ==
    /\ pc = "view" /\ IsToggle(msg)
    /\ reconciled
    /\ Desired(ui, 2)
    /\ cmds = {unsubscribeFromTopicCmd(1)}

=============================================================================
